---- MODULE Spec2Model ----
(***************************************************************************)
(* Method tracer of the ART runtime (runtime/trace.cc): the Start / Stop / *)
(* Shutdown lifecycle around the the_trace_ singleton, the lock-free log   *)
(* path LogMethodTraceEvent and the finalizer FinishTracing.               *)
(*                                                                         *)
(* Controller threads call Start, Stop, Shutdown and                       *)
(* SetDefaultClockSource; mutator threads run the instrumentation          *)
(* callbacks.  Every shared-memory access of a handler is one step.        *)
(***************************************************************************)
EXTENDS Integers, Sequences, FiniteSets, TLC

\* ------------------------------------------------------------------ bounds
\* Tracer objects that may be constructed in one behaviour.
MaxSessions == 2
\* Instrumentation callbacks each mutator thread may deliver in one behaviour.
MaxLogCalls == 2

Controllers == {"c1", "c2"}
Mutators == {1, 2}
NumMutators == Cardinality(Mutators)
TraceIds == 1..MaxSessions
NULL == 0

\* --------------------------------------------------------- program constants
kTraceMethodEnter == 0
kTraceMethodExit == 1
kTraceUnroll == 2
kTraceMethodActionMask == 3
kTraceHeaderLength == 32
kTraceMagicValue == 1464814675
kTraceVersionSingleClock == 2
kTraceVersionDualClock == 3
kTraceRecordSizeSingleClock == 10
kTraceRecordSizeDualClock == 14
\* trace.h: enum TraceFlag { kTraceCountAllocs = 1 }
kTraceCountAllocs == 1

ClockSources == {"wall", "thread_cpu", "dual"}
Events == {"kMethodEntered", "kMethodExited", "kMethodUnwind"}

\* ------------------------------------------------------------------ inputs
\* buffer_size arguments of Start: one shorter than the header, one with room
\* for a single 10-byte record (none of 14), and the two that hold exactly
\* NumMutators * MaxLogCalls records of 10 and of 14 bytes.
ExactFit(record_size) == kTraceHeaderLength + NumMutators * MaxLogCalls * record_size
BufferSizes ==
  {16, 42, ExactFit(kTraceRecordSizeSingleClock), ExactFit(kTraceRecordSizeDualClock)}
FlagValues == {0, 1, 2}
\* Method addresses (4-byte aligned).
Methods == {268443648}
\* Method addresses from the lowest to the highest below 2^31.
AlignedMethods == {4, 268443648, 2147483644}
\* Readings of MicroTime() and of ThreadCpuMicroTime(): uint64_t values, held
\* as four 16-bit limbs, least significant first.  The last wall reading is
\* 2^32 + 1100, more than 32 bits of microseconds after the first.
WallTimes == {<<1000, 0, 0, 0>>, <<1042, 0, 0, 0>>, <<1100, 0, 1, 0>>}
CpuTimes == {<<1000, 0, 0, 0>>, <<1175, 0, 0, 0>>}

\* The workloads explored.  Each fixes which threads are active and which
\* inputs the environment supplies, so that the interleavings of the
\* lifecycle, the interleavings of the log path and the contents of the
\* records are each explored in full without multiplying one another.
Workloads ==
  { \* Start / Stop / Shutdown racing on two controller threads.
    [name |-> "lifecycle", controllers |-> Controllers,
     calls |-> [m \in Mutators |-> 1], posix |-> FALSE, clock_sources |-> ClockSources,
     buffer_sizes |-> {42}, flags |-> {0}, direct |-> BOOLEAN,
     events |-> {"kMethodEntered"},
     methods |-> Methods,
     wall_times |-> {<<1000, 0, 0, 0>>}, cpu_times |-> {<<1000, 0, 0, 0>>}],
    \* Mutator threads racing on the log path with the wall clock, in the
    \* buffer that holds exactly the records they log.
    [name |-> "logging_wall", controllers |-> {"c1"},
     calls |-> [m \in Mutators |-> MaxLogCalls], posix |-> FALSE,
     clock_sources |-> {"wall"},
     buffer_sizes |-> {ExactFit(kTraceRecordSizeSingleClock)},
     flags |-> {0}, direct |-> {TRUE},
     events |-> {"kMethodEntered"},
     methods |-> Methods,
     wall_times |-> {<<1000, 0, 0, 0>>}, cpu_times |-> {<<1000, 0, 0, 0>>}],
    \* The same with the dual clock.
    [name |-> "logging_dual", controllers |-> {"c1"},
     calls |-> [m \in Mutators |-> MaxLogCalls], posix |-> TRUE,
     clock_sources |-> {"dual"},
     buffer_sizes |-> {ExactFit(kTraceRecordSizeDualClock)},
     flags |-> {0}, direct |-> {TRUE},
     events |-> {"kMethodEntered"},
     methods |-> Methods,
     wall_times |-> {<<1000, 0, 0, 0>>}, cpu_times |-> {<<1000, 0, 0, 0>>}],
    \* One mutator thread logging while the default clock source is switched
    \* between the record sizes, into buffers it fills and buffers it does not.
    [name |-> "clock_switch", controllers |-> {"c1"},
     calls |-> [m \in Mutators |-> IF m = 1 THEN MaxLogCalls + 1 ELSE 0], posix |-> TRUE,
     clock_sources |-> {"wall", "dual"},
     buffer_sizes |-> BufferSizes \ {16}, flags |-> {0}, direct |-> {TRUE},
     events |-> {"kMethodEntered"},
     methods |-> Methods,
     wall_times |-> {<<1000, 0, 0, 0>>}, cpu_times |-> {<<1000, 0, 0, 0>>}],
    \* One mutator thread logging two events: every event and clock reading on
    \* every clock.
    [name |-> "records", controllers |-> {"c1"},
     calls |-> [m \in Mutators |-> IF m = 1 THEN 2 ELSE 0], posix |-> TRUE,
     clock_sources |-> ClockSources,
     buffer_sizes |-> {kTraceHeaderLength + 2 * kTraceRecordSizeDualClock},
     flags |-> {0}, direct |-> {TRUE},
     events |-> Events,
     methods |-> Methods,
     wall_times |-> WallTimes, cpu_times |-> CpuTimes],
    \* One session after another with every flags value and sink.
    [name |-> "sessions", controllers |-> {"c1"},
     calls |-> [m \in Mutators |-> IF m = 1 THEN 1 ELSE 0], posix |-> FALSE,
     clock_sources |-> ClockSources,
     buffer_sizes |-> {16, 42}, flags |-> FlagValues, direct |-> BOOLEAN,
     events |-> {"kMethodExited"},
     methods |-> Methods,
     wall_times |-> {<<1000, 0, 0, 0>>, <<1042, 0, 0, 0>>},
     cpu_times |-> {<<1000, 0, 0, 0>>}],
    \* One log call with every method address and event.
    [name |-> "codec", controllers |-> {"c1"},
     calls |-> [m \in Mutators |-> IF m = 1 THEN 1 ELSE 0], posix |-> FALSE,
     clock_sources |-> {"wall"},
     buffer_sizes |-> {42}, flags |-> {0}, direct |-> {TRUE},
     events |-> Events,
     methods |-> AlignedMethods,
     wall_times |-> {<<1000, 0, 0, 0>>}, cpu_times |-> {<<1000, 0, 0, 0>>}] }

\* ---------------------------------------------------------- pure functions
\* Fixed-width unsigned values.  A uint16_t is a natural below 2^16; a
\* uint32_t is a pair and a uint64_t a 4-tuple of 16-bit limbs, least
\* significant first.
Limb == 65536
U16(v) == v % Limb
\* (uint32_t) of a natural
W32(n) == <<n % Limb, (n \div Limb) % Limb>>
\* (uint32_t) of a uint64_t
Low32(t) == <<t[1], t[2]>>
\* a - b on uint64_t, modulo 2^64
Sub64(a, b) ==
  LET d1 == a[1] - b[1]
      c1 == IF d1 < 0 THEN 1 ELSE 0
      d2 == a[2] - b[2] - c1
      c2 == IF d2 < 0 THEN 1 ELSE 0
      d3 == a[3] - b[3] - c2
      c3 == IF d3 < 0 THEN 1 ELSE 0
      d4 == a[4] - b[4] - c3
  IN <<d1 % Limb, d2 % Limb, d3 % Limb, d4 % Limb>>
\* a >= b on uint64_t
Geq64(a, b) ==
  \/ a = b
  \/ \E k \in 1..4 : a[k] > b[k] /\ \A j \in (k + 1)..4 : a[j] = b[j]
\* The bytes of a limb tuple, least significant first.
LimbBytes(t) ==
  [i \in 1..(2 * Len(t)) |->
     IF i % 2 = 1 THEN t[(i + 1) \div 2] % 256 ELSE t[i \div 2] \div 256]

\* Bitwise and / or of two naturals, bit by bit.
RECURSIVE BitAnd(_, _)
BitAnd(a, b) ==
  IF a = 0 \/ b = 0 THEN 0
  ELSE (IF a % 2 = 1 /\ b % 2 = 1 THEN 1 ELSE 0) + 2 * BitAnd(a \div 2, b \div 2)

RECURSIVE BitOr(_, _)
BitOr(a, b) ==
  IF a = 0 THEN b
  ELSE IF b = 0 THEN a
  ELSE (IF a % 2 = 1 \/ b % 2 = 1 THEN 1 ELSE 0) + 2 * BitOr(a \div 2, b \div 2)

\* The method id taken without masking the action bits.
DecodeTraceMethodId_NoMask(tmid) == tmid

\* tmid & ~kTraceMethodActionMask
DecodeTraceMethodId(tmid) == tmid - BitAnd(tmid, kTraceMethodActionMask)

DecodeTraceAction(tmid) == BitAnd(tmid, kTraceMethodActionMask)

EncodeTraceMethodAndAction(method, action) == BitOr(method, action)

GetTraceVersion(clock_source) ==
  IF clock_source = "dual" THEN kTraceVersionDualClock ELSE kTraceVersionSingleClock

GetRecordSize(clock_source) ==
  IF clock_source = "dual" THEN kTraceRecordSizeDualClock
  ELSE kTraceRecordSizeSingleClock

UseThreadCpuClock(clock_source) == clock_source \in {"thread_cpu", "dual"}

UseWallClock(clock_source) == clock_source \in {"wall", "dual"}

\* The bytes of buf with bytes[1..] stored from offset off on; a store past
\* the end of the allocation does not land in buf.
PutBytes(buf, off, bytes) ==
  [i \in (DOMAIN buf) \cap (off..(off + Len(bytes) - 1)) |-> bytes[i - off + 1]] @@ buf

\* val is a uint16_t
Append2LE(buf, off, val) == PutBytes(buf, off, <<val % 256, (val \div 256) % 256>>)

\* The four bytes stored most significant first.
Append4LE_BigEndian(buf, off, val) ==
  PutBytes(buf, off, [i \in 1..4 |-> LimbBytes(val)[5 - i]])

\* val is a uint32_t
Append4LE(buf, off, val) == PutBytes(buf, off, LimbBytes(val))

\* The eight bytes stored most significant first.
Append8LE_BigEndian(buf, off, val) ==
  PutBytes(buf, off, [i \in 1..8 |-> LimbBytes(val)[9 - i]])

\* val is a uint64_t
Append8LE(buf, off, val) == PutBytes(buf, off, LimbBytes(val))

\* thread->GetTid(), narrowed to the uint16_t parameter of Append2LE.
GetTid(thread) == U16(thread + 4)

\* The action a callback logs for an instrumentation event.
ActionOf(event) ==
  CASE event = "kMethodEntered" -> kTraceMethodEnter
    [] event = "kMethodExited" -> kTraceMethodExit
    [] event = "kMethodUnwind" -> kTraceUnroll

\* ------------------------------------------------------------------- state
VARIABLES
  workload,              \* the workload of this behaviour (never changes)
  the_trace,             \* Trace::the_trace_: NULL or the id of a Trace object
  trace_lock,            \* Locks::trace_lock_: "none" or the controller holding it
  default_clock_source,  \* Trace::default_clock_source_
  have_posix_clocks,     \* whether the build defines HAVE_POSIX_CLOCKS
  mutator_lock,          \* "none", or the controller between SuspendAll and ResumeAll
  traces,                \* the heap of Trace objects, by id
  listeners,             \* Instrumentation: how often each Trace is a registered listener
  stats_enabled,         \* Runtime::SetStatsEnabled
  cpc,                   \* controller -> position in Start / Stop / Shutdown
  cargs,                 \* controller -> arguments of the running Start
  cfile,                 \* controller -> Start's local trace_file ("null" or "file")
  clocal,                \* controller -> Stop's local the_trace
  pending_exception,     \* controller -> exception ThrowRuntimeException left pending
  error_log,             \* controller -> LOG(ERROR/WARNING) line of the running call
  mpc,                   \* mutator -> position in LogMethodTraceEvent
  mthis,                 \* mutator -> the listener whose callback it runs
  mevent,                \* mutator -> event argument
  mmethod,               \* mutator -> method argument
  old_offset,            \* mutator -> local old_offset
  new_offset,            \* mutator -> local new_offset
  ncalls,                \* mutator -> callbacks delivered so far
  reserved,              \* per Trace: the successful reservations, in CAS order
  dropped,               \* per Trace: the log calls that set overflow_ and returned
  emitted                \* per Trace: what FinishTracing handed to the sink, kept
                         \* until the Stop that ran it returns

shared == <<workload, the_trace, trace_lock, default_clock_source, have_posix_clocks,
            mutator_lock, traces, listeners, stats_enabled>>
cvars == <<cpc, cargs, cfile, clocal, pending_exception, error_log>>
mvars == <<mpc, mthis, mevent, mmethod, old_offset, new_offset, ncalls>>
history == <<reserved, dropped, emitted>>
vars == <<shared, cvars, mvars, history>>

EmptyMap == [x \in {} |-> 0]

\* A slot of the heap that holds no Trace object.
NoTrace ==
  [state |-> "none", trace_file |-> "null", buf |-> EmptyMap, flags |-> 0,
   clock_source |-> "wall", buffer_size |-> 0, start_time |-> <<0, 0, 0, 0>>,
   cur_offset |-> 0, overflow |-> FALSE, thread_clock_base_map |-> EmptyMap,
   overrun |-> FALSE]

NoOutput ==
  [sink |-> "none", written |-> FALSE, version |-> 0, overflow |-> FALSE,
   clock |-> "none", elapsed |-> <<0, 0, 0, 0>>, num_method_calls |-> 0,
   alloc_lines |-> FALSE, visited_methods |-> {}, final_offset |-> 0,
   payload |-> EmptyMap]

NoArgs == [buffer_size |-> 0, flags |-> 0, direct_to_ddms |-> FALSE]

\* Trace::Trace: the object the constructor leaves behind.  The header is
\* stored through buf_.get() whatever buffer_size is; with buffer_size below
\* kTraceHeaderLength the stores run past the allocation (overrun).
NewTrace(trace_file, buffer_size, flags, clock_source, start_time) ==
  LET trace_version == GetTraceVersion(clock_source)
      b0 == [i \in 0..(buffer_size - 1) |-> 0]
      b1 == Append4LE(b0, 0, W32(kTraceMagicValue))
      b2 == Append2LE(b1, 4, trace_version)
      b3 == Append2LE(b2, 6, kTraceHeaderLength)
      b4 == Append8LE(b3, 8, start_time)
      b5 == IF trace_version >= kTraceVersionDualClock
            THEN Append2LE(b4, 16, GetRecordSize(clock_source))
            ELSE b4
  IN [state |-> "live", trace_file |-> trace_file, buf |-> b5, flags |-> flags,
      clock_source |-> clock_source, buffer_size |-> buffer_size,
      start_time |-> start_time, cur_offset |-> kTraceHeaderLength,
      overflow |-> FALSE, thread_clock_base_map |-> EmptyMap,
      overrun |-> (buffer_size < kTraceHeaderLength)]

\* operator new: the lowest free slot of the heap.
FreeIds == {t \in TraceIds : traces[t].state = "none"}
NewId == CHOOSE t \in FreeIds : \A u \in FreeIds : t <= u

InitialClockSource(posix) == IF posix THEN "dual" ELSE "wall"

Init ==
  /\ workload \in Workloads
  /\ the_trace = NULL
  /\ trace_lock = "none"
  /\ have_posix_clocks = workload.posix
  /\ default_clock_source = InitialClockSource(have_posix_clocks)
  /\ mutator_lock = "none"
  /\ traces = [t \in TraceIds |-> NoTrace]
  /\ listeners = [t \in TraceIds |-> 0]
  /\ stats_enabled = FALSE
  /\ cpc = [c \in Controllers |-> "idle"]
  /\ cargs = [c \in Controllers |-> NoArgs]
  /\ cfile = [c \in Controllers |-> "null"]
  /\ clocal = [c \in Controllers |-> NULL]
  /\ pending_exception = [c \in Controllers |-> "none"]
  /\ error_log = [c \in Controllers |-> "none"]
  /\ mpc = [m \in Mutators |-> "idle"]
  /\ mthis = [m \in Mutators |-> NULL]
  /\ mevent = [m \in Mutators |-> "kMethodEntered"]
  /\ mmethod = [m \in Mutators |-> 0]
  /\ old_offset = [m \in Mutators |-> 0]
  /\ new_offset = [m \in Mutators |-> 0]
  /\ ncalls = [m \in Mutators |-> 0]
  /\ reserved = [t \in TraceIds |-> <<>>]
  /\ dropped = [t \in TraceIds |-> 0]
  /\ emitted = [t \in TraceIds |-> NoOutput]

\* --------------------------------------------------------- collaborators
\* ThreadList::SuspendAll: returns once every mutator is parked outside the
\* callbacks and no other thread holds the world.
SuspendAll(c) ==
  /\ mutator_lock = "none"
  /\ \A m \in Mutators : mpc[m] = "idle"
  /\ mutator_lock' = c

ResumeAll(c) == mutator_lock' = "none"

AddListener(t) == listeners' = [listeners EXCEPT ![t] = @ + 1]

RemoveListener(t) == listeners' = [listeners EXCEPT ![t] = 0]

\* ------------------------------------------------------------ Trace::Start
\* A managed thread calls Start; the call begins with no exception pending.
CallStart(c) ==
  /\ cpc[c] = "idle"
  /\ c \in workload.controllers
  /\ \E bs \in workload.buffer_sizes, f \in workload.flags, d \in workload.direct :
       cargs' = [cargs EXCEPT ![c] =
                   [buffer_size |-> bs, flags |-> f, direct_to_ddms |-> d]]
  /\ cpc' = [cpc EXCEPT ![c] = "start_check"]
  /\ pending_exception' = [pending_exception EXCEPT ![c] = "none"]
  /\ error_log' = [error_log EXCEPT ![c] = "none"]
  /\ UNCHANGED <<shared, cfile, clocal, mvars, history>>

\* The first check, under trace_lock.
StartActive(c) == the_trace # NULL

StartCheck(c) ==
  /\ cpc[c] = "start_check"
  /\ trace_lock = "none"
  /\ IF StartActive(c)
     THEN /\ error_log' = [error_log EXCEPT ![c] = "already_in_progress"]
          /\ cpc' = [cpc EXCEPT ![c] = "idle"]
          /\ cargs' = [cargs EXCEPT ![c] = NoArgs]
     ELSE /\ cpc' = [cpc EXCEPT ![c] = "start_suspend"]
          /\ UNCHANGED <<error_log, cargs>>
  /\ UNCHANGED <<shared, cfile, clocal, pending_exception, mvars, history>>

\* Start without its SuspendAll.
StartSuspendAll_Skipped(c) ==
  /\ cpc[c] = "start_suspend"
  /\ cpc' = [cpc EXCEPT ![c] = "start_open"]
  /\ UNCHANGED <<shared, cargs, cfile, clocal, pending_exception, error_log,
                 mvars, history>>

StartSuspendAll(c) ==
  /\ cpc[c] = "start_suspend"
  /\ SuspendAll(c)
  /\ cpc' = [cpc EXCEPT ![c] = "start_open"]
  /\ UNCHANGED <<workload, the_trace, trace_lock, default_clock_source, have_posix_clocks,
                 traces, listeners, stats_enabled>>
  /\ UNCHANGED <<cargs, cfile, clocal, pending_exception, error_log, mvars, history>>

\* Open the trace file unless the trace goes to DDMS; OS::OpenFile may fail.
StartOpen(c) ==
  /\ cpc[c] = "start_open"
  /\ IF cargs[c].direct_to_ddms
     THEN /\ cfile' = [cfile EXCEPT ![c] = "null"]
          /\ cpc' = [cpc EXCEPT ![c] = "start_create"]
          /\ UNCHANGED error_log
     ELSE \E opened \in BOOLEAN :
            IF opened
            THEN /\ cfile' = [cfile EXCEPT ![c] = "file"]
                 /\ cpc' = [cpc EXCEPT ![c] = "start_create"]
                 /\ UNCHANGED error_log
            ELSE /\ cfile' = [cfile EXCEPT ![c] = "null"]
                 /\ error_log' = [error_log EXCEPT ![c] = "unable_to_open"]
                 /\ cpc' = [cpc EXCEPT ![c] = "start_open_failed"]
  /\ UNCHANGED <<shared, cargs, clocal, pending_exception, mvars, history>>

\* The failure path without its ResumeAll.
StartOpenFailedResume_NoResume(c) ==
  /\ cpc[c] = "start_open_failed"
  /\ cpc' = [cpc EXCEPT ![c] = "start_throw"]
  /\ UNCHANGED <<shared, cargs, cfile, clocal, pending_exception, error_log,
                 mvars, history>>

\* Runtime::Current()->GetThreadList()->ResumeAll() of the failure path.
StartOpenFailedResume(c) ==
  /\ cpc[c] = "start_open_failed"
  /\ ResumeAll(c)
  /\ cpc' = [cpc EXCEPT ![c] = "start_throw"]
  /\ UNCHANGED <<workload, the_trace, trace_lock, default_clock_source, have_posix_clocks,
                 traces, listeners, stats_enabled>>
  /\ UNCHANGED <<cargs, cfile, clocal, pending_exception, error_log, mvars, history>>

StartThrow(c) ==
  /\ cpc[c] = "start_throw"
  /\ pending_exception' = [pending_exception EXCEPT ![c] = "unable_to_open"]
  /\ cpc' = [cpc EXCEPT ![c] = "idle"]
  /\ cargs' = [cargs EXCEPT ![c] = NoArgs]
  /\ cfile' = [cfile EXCEPT ![c] = "null"]
  /\ UNCHANGED <<shared, clocal, error_log, mvars, history>>

\* Start without its second check.
StartRecheck_Skipped(c) == FALSE

\* The second check under trace_lock and, when it passes, the construction of
\* the Trace object and its store into the_trace_.
StartRecheck(c) == the_trace # NULL

StartCreate(c) ==
  /\ cpc[c] = "start_create"
  /\ trace_lock = "none"
  /\ trace_lock' = c
  /\ IF StartRecheck(c)
     THEN /\ error_log' = [error_log EXCEPT ![c] = "already_in_progress"]
          /\ cpc' = [cpc EXCEPT ![c] = "start_unlock"]
          /\ UNCHANGED <<the_trace, traces, history>>
     ELSE /\ FreeIds # {}
          /\ \E now \in workload.wall_times :
               traces' = [traces EXCEPT ![NewId] =
                            NewTrace(cfile[c], cargs[c].buffer_size, cargs[c].flags,
                                     default_clock_source, now)]
          /\ the_trace' = NewId
          /\ reserved' = [reserved EXCEPT ![NewId] = <<>>]
          /\ dropped' = [dropped EXCEPT ![NewId] = 0]
          /\ emitted' = [emitted EXCEPT ![NewId] = NoOutput]
          /\ cpc' = [cpc EXCEPT ![c] = "start_stats"]
          /\ UNCHANGED error_log
  /\ UNCHANGED <<workload, default_clock_source, have_posix_clocks, mutator_lock, listeners,
                 stats_enabled>>
  /\ UNCHANGED <<cargs, cfile, clocal, pending_exception, mvars>>

\* (flags && kTraceCountAllocs) != 0
StartCountAllocs(flags) == (flags # 0 /\ kTraceCountAllocs # 0)

StartStats(c) ==
  /\ cpc[c] = "start_stats"
  /\ stats_enabled' = IF StartCountAllocs(cargs[c].flags) THEN TRUE ELSE stats_enabled
  /\ cpc' = [cpc EXCEPT ![c] = "start_add"]
  /\ UNCHANGED <<workload, the_trace, trace_lock, default_clock_source, have_posix_clocks,
                 mutator_lock, traces, listeners>>
  /\ UNCHANGED <<cargs, cfile, clocal, pending_exception, error_log, mvars, history>>

StartAddListener(c) ==
  /\ cpc[c] = "start_add"
  /\ AddListener(the_trace)
  /\ cpc' = [cpc EXCEPT ![c] = "start_unlock"]
  /\ UNCHANGED <<workload, the_trace, trace_lock, default_clock_source, have_posix_clocks,
                 mutator_lock, traces, stats_enabled>>
  /\ UNCHANGED <<cargs, cfile, clocal, pending_exception, error_log, mvars, history>>

StartUnlock(c) ==
  /\ cpc[c] = "start_unlock"
  /\ trace_lock' = "none"
  /\ cpc' = [cpc EXCEPT ![c] = "start_resume"]
  /\ UNCHANGED <<workload, the_trace, default_clock_source, have_posix_clocks, mutator_lock,
                 traces, listeners, stats_enabled>>
  /\ UNCHANGED <<cargs, cfile, clocal, pending_exception, error_log, mvars, history>>

StartResume(c) ==
  /\ cpc[c] = "start_resume"
  /\ ResumeAll(c)
  /\ cpc' = [cpc EXCEPT ![c] = "idle"]
  /\ cargs' = [cargs EXCEPT ![c] = NoArgs]
  /\ cfile' = [cfile EXCEPT ![c] = "null"]
  /\ UNCHANGED <<workload, the_trace, trace_lock, default_clock_source, have_posix_clocks,
                 traces, listeners, stats_enabled>>
  /\ UNCHANGED <<clocal, pending_exception, error_log, mvars, history>>

\* ------------------------------------------------------------- Trace::Stop
CallStop(c) ==
  /\ cpc[c] = "idle"
  /\ c \in workload.controllers
  /\ cpc' = [cpc EXCEPT ![c] = "stop_suspend"]
  /\ pending_exception' = [pending_exception EXCEPT ![c] = "none"]
  /\ error_log' = [error_log EXCEPT ![c] = "none"]
  /\ UNCHANGED <<shared, cargs, cfile, clocal, mvars, history>>

\* Stop without its SuspendAll.
StopSuspendAll_Skipped(c) ==
  /\ cpc[c] = "stop_suspend"
  /\ cpc' = [cpc EXCEPT ![c] = "stop_take"]
  /\ UNCHANGED <<shared, cargs, cfile, clocal, pending_exception, error_log,
                 mvars, history>>

StopSuspendAll(c) ==
  /\ cpc[c] = "stop_suspend"
  /\ SuspendAll(c)
  /\ cpc' = [cpc EXCEPT ![c] = "stop_take"]
  /\ UNCHANGED <<workload, the_trace, trace_lock, default_clock_source, have_posix_clocks,
                 traces, listeners, stats_enabled>>
  /\ UNCHANGED <<cargs, cfile, clocal, pending_exception, error_log, mvars, history>>

\* Under trace_lock: take the Trace out of the_trace_, or report that none runs.
StopTake(c) ==
  /\ cpc[c] = "stop_take"
  /\ trace_lock = "none"
  /\ IF the_trace = NULL
     THEN /\ error_log' = [error_log EXCEPT ![c] = "no_trace_running"]
          /\ clocal' = [clocal EXCEPT ![c] = NULL]
          /\ cpc' = [cpc EXCEPT ![c] = "stop_resume"]
          /\ UNCHANGED the_trace
     ELSE /\ clocal' = [clocal EXCEPT ![c] = the_trace]
          /\ the_trace' = NULL
          /\ cpc' = [cpc EXCEPT ![c] = "stop_finish"]
          /\ UNCHANGED error_log
  /\ UNCHANGED <<workload, trace_lock, default_clock_source, have_posix_clocks, mutator_lock,
                 traces, listeners, stats_enabled>>
  /\ UNCHANGED <<cargs, cfile, pending_exception, mvars, history>>

\* The tmid stored at bytes 2..5 of the record at offset off.
ReadTmid(buf, off) ==
  LET b(i) == IF (off + i) \in DOMAIN buf THEN buf[off + i] ELSE 0
  IN b(2) + b(3) * 256 + b(4) * 256 * 256 + b(5) * 256 * 256 * 256

\* Trace::GetVisitedMethods: the methods of the records in [32, buf_size).
GetVisitedMethods(tr, buf_size) ==
  LET rs == GetRecordSize(tr.clock_source)
      starts == {off \in kTraceHeaderLength..(buf_size - 1) :
                   (off - kTraceHeaderLength) % rs = 0}
  IN {DecodeTraceMethodId(ReadTmid(tr.buf, off)) : off \in starts}

\* The header counted as records.
NumRecords_NoHeader(final_offset, clock_source) ==
  final_offset \div GetRecordSize(clock_source)

\* size_t num_records = (final_offset - kTraceHeaderLength) / GetRecordSize(clock_source_)
NumRecords(final_offset, clock_source) ==
  (final_offset - kTraceHeaderLength) \div GetRecordSize(clock_source)

\* (flags_ & kTraceCountAllocs) != 0
FinishCountAllocs(flags) == BitAnd(flags, kTraceCountAllocs) # 0

ClockName(clock_source) ==
  IF UseThreadCpuClock(clock_source)
  THEN (IF UseWallClock(clock_source) THEN "dual" ELSE "thread-cpu")
  ELSE "wall"

\* Trace::FinishTracing: the preamble and the payload handed to the sink.
FinishOutput(tr, now, written) ==
  LET final_offset == tr.cur_offset
  IN [sink |-> IF tr.trace_file = "null" THEN "ddms" ELSE "file",
      written |-> written,
      version |-> GetTraceVersion(tr.clock_source),
      overflow |-> tr.overflow,
      clock |-> ClockName(tr.clock_source),
      elapsed |-> Sub64(now, tr.start_time),
      num_method_calls |-> NumRecords(final_offset, tr.clock_source),
      alloc_lines |-> FinishCountAllocs(tr.flags),
      visited_methods |-> GetVisitedMethods(tr, final_offset),
      final_offset |-> final_offset,
      payload |-> [i \in {j \in DOMAIN tr.buf : j < final_offset} |-> tr.buf[i]]]

\* the_trace->FinishTracing(): a write to the trace file may fail, which logs
\* the failure and leaves a RuntimeException pending; DDMS chunks do not fail.
StopFinish(c) ==
  /\ cpc[c] = "stop_finish"
  /\ LET t == clocal[c]
         tr == traces[t]
     IN \E now \in {w \in workload.wall_times : Geq64(w, tr.start_time)},
           ok \in (IF tr.trace_file = "null" THEN {TRUE} ELSE BOOLEAN) :
          /\ emitted' = [emitted EXCEPT ![t] = FinishOutput(tr, now, ok)]
          /\ stats_enabled' = IF FinishCountAllocs(tr.flags) THEN FALSE ELSE stats_enabled
          /\ IF ok
             THEN UNCHANGED <<error_log, pending_exception>>
             ELSE /\ error_log' = [error_log EXCEPT ![c] = "write_failed"]
                  /\ pending_exception' = [pending_exception EXCEPT ![c] = "write_failed"]
  /\ cpc' = [cpc EXCEPT ![c] = "stop_remove"]
  /\ UNCHANGED <<workload, the_trace, trace_lock, default_clock_source, have_posix_clocks,
                 mutator_lock, traces, listeners>>
  /\ UNCHANGED <<cargs, cfile, clocal, mvars, reserved, dropped>>

\* Stop that leaves the listener registered.
StopRemoveListener_Skipped(c) ==
  /\ cpc[c] = "stop_remove"
  /\ cpc' = [cpc EXCEPT ![c] = "stop_delete"]
  /\ UNCHANGED <<shared, cargs, cfile, clocal, pending_exception, error_log,
                 mvars, history>>

StopRemoveListener(c) ==
  /\ cpc[c] = "stop_remove"
  /\ RemoveListener(clocal[c])
  /\ cpc' = [cpc EXCEPT ![c] = "stop_delete"]
  /\ UNCHANGED <<workload, the_trace, trace_lock, default_clock_source, have_posix_clocks,
                 mutator_lock, traces, stats_enabled>>
  /\ UNCHANGED <<cargs, cfile, clocal, pending_exception, error_log, mvars, history>>

\* delete the_trace
StopDelete(c) ==
  /\ cpc[c] = "stop_delete"
  /\ traces' = [traces EXCEPT ![clocal[c]] = NoTrace]
  /\ cpc' = [cpc EXCEPT ![c] = "stop_resume"]
  /\ UNCHANGED <<workload, the_trace, trace_lock, default_clock_source, have_posix_clocks,
                 mutator_lock, listeners, stats_enabled>>
  /\ UNCHANGED <<cargs, cfile, clocal, pending_exception, error_log, mvars, history>>

\* Stop that returns without its ResumeAll.
StopResume_NoResume(c) ==
  /\ cpc[c] = "stop_resume"
  /\ cpc' = [cpc EXCEPT ![c] = "idle"]
  /\ clocal' = [clocal EXCEPT ![c] = NULL]
  /\ emitted' = [t \in TraceIds |-> IF t = clocal[c] THEN NoOutput ELSE emitted[t]]
  /\ UNCHANGED <<shared, cargs, cfile, pending_exception, error_log, mvars,
                 reserved, dropped>>

StopResume(c) ==
  /\ cpc[c] = "stop_resume"
  /\ ResumeAll(c)
  /\ cpc' = [cpc EXCEPT ![c] = "idle"]
  /\ clocal' = [clocal EXCEPT ![c] = NULL]
  /\ emitted' = [t \in TraceIds |-> IF t = clocal[c] THEN NoOutput ELSE emitted[t]]
  /\ UNCHANGED <<workload, the_trace, trace_lock, default_clock_source, have_posix_clocks,
                 traces, listeners, stats_enabled>>
  /\ UNCHANGED <<cargs, cfile, pending_exception, error_log, mvars, reserved, dropped>>

\* --------------------------------------------------------- Trace::Shutdown
CallShutdown(c) ==
  /\ cpc[c] = "idle"
  /\ c \in workload.controllers
  /\ cpc' = [cpc EXCEPT ![c] = "shutdown_check"]
  /\ pending_exception' = [pending_exception EXCEPT ![c] = "none"]
  /\ error_log' = [error_log EXCEPT ![c] = "none"]
  /\ UNCHANGED <<shared, cargs, cfile, clocal, mvars, history>>

\* Trace::IsMethodTracingActive, under trace_lock.
IsMethodTracingActive == the_trace # NULL

ShutdownCheck(c) ==
  /\ cpc[c] = "shutdown_check"
  /\ trace_lock = "none"
  /\ cpc' = [cpc EXCEPT ![c] =
               IF IsMethodTracingActive THEN "stop_suspend" ELSE "idle"]
  /\ UNCHANGED <<shared, cargs, cfile, clocal, pending_exception, error_log,
                 mvars, history>>

\* ------------------------------------------- Trace::SetDefaultClockSource
SetDefaultClockSource(c) ==
  /\ cpc[c] = "idle"
  /\ c \in workload.controllers
  /\ \E clock_source \in workload.clock_sources :
       /\ default_clock_source' =
            IF have_posix_clocks THEN clock_source ELSE default_clock_source
       /\ error_log' = [error_log EXCEPT ![c] =
            IF ~have_posix_clocks /\ clock_source # "wall"
            THEN "ignoring_clock_source" ELSE "none"]
  /\ pending_exception' = [pending_exception EXCEPT ![c] = "none"]
  /\ UNCHANGED <<workload, the_trace, trace_lock, have_posix_clocks, mutator_lock, traces,
                 listeners, stats_enabled>>
  /\ UNCHANGED <<cpc, cargs, cfile, clocal, mvars, history>>

\* ------------------------------------------- Trace::LogMethodTraceEvent
\* Instrumentation delivers MethodEntered / MethodExited / MethodUnwind to a
\* registered listener on a running mutator thread.
Callback(m) ==
  /\ mpc[m] = "idle"
  /\ mutator_lock = "none"
  /\ ncalls[m] < workload.calls[m]
  /\ \E t \in TraceIds, event \in workload.events, method \in workload.methods :
       /\ listeners[t] > 0
       /\ mthis' = [mthis EXCEPT ![m] = t]
       /\ mevent' = [mevent EXCEPT ![m] = event]
       /\ mmethod' = [mmethod EXCEPT ![m] = method]
  /\ ncalls' = [ncalls EXCEPT ![m] = @ + 1]
  /\ mpc' = [mpc EXCEPT ![m] = "log_read"]
  /\ UNCHANGED <<shared, cvars, old_offset, new_offset, history>>

\* The next position of a log call; its locals die when it returns.
LogGoto(m, label) ==
  /\ mpc' = [mpc EXCEPT ![m] = label]
  /\ IF label = "idle"
     THEN /\ mthis' = [mthis EXCEPT ![m] = NULL]
          /\ mevent' = [mevent EXCEPT ![m] = "kMethodEntered"]
          /\ mmethod' = [mmethod EXCEPT ![m] = 0]
          /\ old_offset' = [old_offset EXCEPT ![m] = 0]
          /\ new_offset' = [new_offset EXCEPT ![m] = 0]
     ELSE UNCHANGED <<mthis, mevent, mmethod, old_offset, new_offset>>

\* The record size taken from default_clock_source_ instead of clock_source_.
LogNewOffset_DefaultClock(tr, old) == old + GetRecordSize(default_clock_source)

\* new_offset = old_offset
LogNewOffset_NoAdvance(tr, old) == old

\* old_offset = cur_offset_; new_offset = old_offset + GetRecordSize(clock_source_)
LogNewOffset(tr, old) == old + GetRecordSize(tr.clock_source)

LogRead(m) ==
  /\ mpc[m] = "log_read"
  /\ LET tr == traces[mthis[m]]
     IN /\ old_offset' = [old_offset EXCEPT ![m] = tr.cur_offset]
        /\ new_offset' = [new_offset EXCEPT ![m] = LogNewOffset(tr, tr.cur_offset)]
  /\ mpc' = [mpc EXCEPT ![m] = "log_cas"]
  /\ UNCHANGED <<shared, cvars, mthis, mevent, mmethod, ncalls, history>>

\* if (new_offset >= buffer_size_)
LogOverflows_OffByOne(new, buffer_size) == new >= buffer_size

\* The test applied to where the record starts instead of where it ends.
LogOverflows_StartPastEnd(new, buffer_size) ==
  new - kTraceRecordSizeSingleClock > buffer_size

\* if (new_offset > buffer_size_)
LogOverflows(new, buffer_size) == new > buffer_size

\* A compare-and-swap that fails although the cursor holds the expected value.
CasSucceeds_Never(cur, old) == FALSE

\* A plain store in place of the compare-and-swap.
CasSucceeds_Blind(cur, old) == TRUE

\* android_atomic_release_cas(old_offset, new_offset, &cur_offset_) == 0
CasSucceeds(cur, old) == cur = old

\* The overflow test and, when the record fits, one compare-and-swap of
\* cur_offset_; a failed swap goes round the loop again.
LogCas(m) ==
  /\ mpc[m] = "log_cas"
  /\ LET t == mthis[m]
         tr == traces[t]
     IN IF LogOverflows(new_offset[m], tr.buffer_size)
        THEN /\ traces' = [traces EXCEPT ![t].overflow = TRUE]
             /\ dropped' = [dropped EXCEPT ![t] = @ + 1]
             /\ LogGoto(m, "idle")
             /\ UNCHANGED reserved
        ELSE IF CasSucceeds(tr.cur_offset, old_offset[m])
        THEN /\ traces' = [traces EXCEPT ![t].cur_offset = new_offset[m]]
             /\ reserved' = [reserved EXCEPT ![t] =
                               Append(@, [thread |-> m, offset |-> old_offset[m]])]
             /\ LogGoto(m, "log_write")
             /\ UNCHANGED dropped
        ELSE /\ LogGoto(m, "log_read")
             /\ UNCHANGED <<traces, reserved, dropped>>
  /\ UNCHANGED <<workload, the_trace, trace_lock, default_clock_source, have_posix_clocks,
                 mutator_lock, listeners, stats_enabled>>
  /\ UNCHANGED <<cvars, ncalls, emitted>>

\* The record stored one record after the reserved slot.
LogPtr_Next(old) == old + kTraceRecordSizeSingleClock

\* uint8_t* ptr = buf_.get() + old_offset
LogPtr(old) == old

AfterWrite(clock_source) ==
  IF UseThreadCpuClock(clock_source) THEN "log_cpu"
  ELSE IF UseWallClock(clock_source) THEN "log_wall"
  ELSE "idle"

\* The thread id and the method-and-action word of the record.
LogWrite(m) ==
  /\ mpc[m] = "log_write"
  /\ LET t == mthis[m]
         tr == traces[t]
     IN /\ LogGoto(m, AfterWrite(tr.clock_source))
        /\ \E method_value \in {W32(EncodeTraceMethodAndAction(mmethod[m], ActionOf(mevent[m])))},
              ptr \in {LogPtr(old_offset[m])}, buf \in {tr.buf} :
           \E b1 \in {Append2LE(buf, ptr, GetTid(m))} :
             traces' = [traces EXCEPT ![t].buf = Append4LE(b1, ptr + 2, method_value)]
  /\ UNCHANGED <<workload, the_trace, trace_lock, default_clock_source, have_posix_clocks,
                 mutator_lock, listeners, stats_enabled>>
  /\ UNCHANGED <<cvars, ncalls, history>>

\* SafeMap::Put
MapPut(map, k, v) == [x \in (DOMAIN map) \cup {k} |-> IF x = k THEN v ELSE map[x]]

\* The map operations of LogMethodTraceEvent take no lock ("this isn't vaguely
\* thread safe"): a find or a Put of one thread races with the Put another
\* thread has in progress on the same map.
MapRace(m) ==
  \E o \in Mutators \ {m} : mpc[o] = "log_cpu_put" /\ mthis[o] = mthis[m]

\* thread_clock_base_map_.find(thread) != end(): what the lookup can answer.
\* A lookup that races with a Put may miss an entry that is there.
MapFind(m, map) ==
  IF MapRace(m) /\ m \in DOMAIN map THEN BOOLEAN ELSE {m \in DOMAIN map}

\* The position after the thread-CPU delta is stored.
AfterCpu(clock_source) == IF UseWallClock(clock_source) THEN "log_wall" ELSE "idle"

\* The lookup of the thread's base and, on a hit, the delta since the base.
\* On a miss the thread goes on to record its base.
LogCpu(m) ==
  /\ mpc[m] = "log_cpu"
  /\ LET t == mthis[m]
         tr == traces[t]
         map == tr.thread_clock_base_map
     IN \E found \in MapFind(m, map) :
          IF found
          THEN /\ LogGoto(m, AfterCpu(tr.clock_source))
               /\ \E time \in {x \in workload.cpu_times : Geq64(x, map[m])} :
                  \E thread_clock_diff \in {Low32(Sub64(time, map[m]))},
                     ptr \in {LogPtr(old_offset[m]) + 6}, buf \in {tr.buf} :
                    traces' = [traces EXCEPT
                      ![t].buf = Append4LE(buf, ptr, thread_clock_diff)]
          ELSE /\ LogGoto(m, "log_cpu_put")
               /\ UNCHANGED traces
  /\ UNCHANGED <<workload, the_trace, trace_lock, default_clock_source, have_posix_clocks,
                 mutator_lock, listeners, stats_enabled>>
  /\ UNCHANGED <<cvars, ncalls, history>>

\* Whether the insertion of a Put takes effect: one that races with another
\* Put may be lost.
PutLands(m) == IF MapRace(m) THEN BOOLEAN ELSE {TRUE}

\* First event of the thread: the diff is 0 and the base time goes into the
\* map.  Put inserts; it leaves an entry that is already there.
LogCpuPut(m) ==
  /\ mpc[m] = "log_cpu_put"
  /\ LET t == mthis[m]
         tr == traces[t]
         map == tr.thread_clock_base_map
     IN /\ LogGoto(m, AfterCpu(tr.clock_source))
        /\ \E time \in workload.cpu_times, landed \in PutLands(m) :
           \E thread_clock_diff \in {W32(0)},
              ptr \in {LogPtr(old_offset[m]) + 6}, buf \in {tr.buf} :
             traces' = [traces EXCEPT
               ![t].thread_clock_base_map =
                  IF landed /\ m \notin DOMAIN map THEN MapPut(map, m, time) ELSE map,
               ![t].buf = Append4LE(buf, ptr, thread_clock_diff)]
  /\ UNCHANGED <<workload, the_trace, trace_lock, default_clock_source, have_posix_clocks,
                 mutator_lock, listeners, stats_enabled>>
  /\ UNCHANGED <<cvars, ncalls, history>>

\* The wall-clock delta since start_time_.
LogWall(m) ==
  /\ mpc[m] = "log_wall"
  /\ LogGoto(m, "idle")
  /\ LET t == mthis[m]
         tr == traces[t]
     IN \E now \in {w \in workload.wall_times : Geq64(w, tr.start_time)} :
        \E wall_clock_diff \in {Low32(Sub64(now, tr.start_time))},
           ptr \in {LogPtr(old_offset[m]) + 6 +
                      (IF UseThreadCpuClock(tr.clock_source) THEN 4 ELSE 0)},
           buf \in {tr.buf} :
          traces' = [traces EXCEPT
                       ![t].buf = Append4LE(buf, ptr, wall_clock_diff)]
  /\ UNCHANGED <<workload, the_trace, trace_lock, default_clock_source, have_posix_clocks,
                 mutator_lock, listeners, stats_enabled>>
  /\ UNCHANGED <<cvars, ncalls, history>>

\* ------------------------------------------------------------ specification
Next ==
  \/ \E c \in Controllers : CallStart(c)
  \/ \E c \in Controllers : StartCheck(c)
  \/ \E c \in Controllers : StartSuspendAll(c)
  \/ \E c \in Controllers : StartOpen(c)
  \/ \E c \in Controllers : StartOpenFailedResume(c)
  \/ \E c \in Controllers : StartThrow(c)
  \/ \E c \in Controllers : StartCreate(c)
  \/ \E c \in Controllers : StartStats(c)
  \/ \E c \in Controllers : StartAddListener(c)
  \/ \E c \in Controllers : StartUnlock(c)
  \/ \E c \in Controllers : StartResume(c)
  \/ \E c \in Controllers : CallStop(c)
  \/ \E c \in Controllers : StopSuspendAll(c)
  \/ \E c \in Controllers : StopTake(c)
  \/ \E c \in Controllers : StopFinish(c)
  \/ \E c \in Controllers : StopRemoveListener(c)
  \/ \E c \in Controllers : StopDelete(c)
  \/ \E c \in Controllers : StopResume(c)
  \/ \E c \in Controllers : CallShutdown(c)
  \/ \E c \in Controllers : ShutdownCheck(c)
  \/ \E c \in Controllers : SetDefaultClockSource(c)
  \/ \E m \in Mutators : Callback(m)
  \/ \E m \in Mutators : LogRead(m)
  \/ \E m \in Mutators : LogCas(m)
  \/ \E m \in Mutators : LogWrite(m)
  \/ \E m \in Mutators : LogCpu(m)
  \/ \E m \in Mutators : LogCpuPut(m)
  \/ \E m \in Mutators : LogWall(m)

Spec == Init /\ [][Next]_vars

\* The steps of LogMethodTraceEvent on thread m, from the read of the cursor
\* to the return.
LogStep(m) ==
  \/ LogRead(m)
  \/ LogCas(m)
  \/ LogWrite(m)
  \/ LogCpu(m)
  \/ LogCpuPut(m)
  \/ LogWall(m)

\* Fair scheduling of the threads that run the log path: a thread that is
\* inside LogMethodTraceEvent is eventually given its next step.
FairSpec == Spec /\ \A m \in Mutators : WF_vars(LogStep(m))

\* ------------------------------------------------------------------ claims
Live(t) == traces[t].state = "live"
LiveTraces == {t \in TraceIds : Live(t)}
Registrations == {<<t, k>> \in TraceIds \X (1..Cardinality(Controllers)) : k <= listeners[t]}
\* The record size the format prescribes for a clock source.
FormatRecordSize(clock_source) == IF clock_source = "dual" THEN 14 ELSE 10
\* The log calls the workload delivers in one behaviour.
RECURSIVE SumCalls(_)
SumCalls(ms) ==
  IF ms = {} THEN 0
  ELSE LET m == CHOOSE x \in ms : TRUE IN workload.calls[m] + SumCalls(ms \ {m})
TotalCalls == SumCalls(Mutators)

\* C1: however Start calls interleave, at most one Trace object is alive at a
\* time, it is the only registered listener, it is registered at most once,
\* and once the Start that stored it has resumed the world it is registered
\* exactly once.
C1_SingleTracer ==
  /\ Cardinality(LiveTraces) <= 1
  /\ Cardinality(Registrations) <= 1
  /\ \A t \in TraceIds : listeners[t] > 0 => Live(t)
  /\ (mutator_lock = "none" /\ the_trace # NULL) => listeners[the_trace] = 1

\* A Start that passed the first check finds, at the second check, the Trace
\* another Start stored meanwhile.
C1_Witness ==
  \E c \in Controllers :
    /\ cpc[c] = "start_unlock"
    /\ error_log[c] = "already_in_progress"
    /\ the_trace # NULL
    /\ listeners[the_trace] = 1

\* C2 as stated: in every reachable state the_trace_ is set if and only if a
\* Trace is registered as a listener, if and only if a Trace object exists.
C2_Original ==
  /\ (the_trace # NULL) <=> (\E t \in TraceIds : listeners[t] > 0)
  /\ (the_trace # NULL) <=> (LiveTraces # {})

\* C2 as amended: whenever no Start or Stop holds the world suspended,
\* the_trace_ is set if and only if the Trace it names is the one registered
\* listener, if and only if that Trace object is the one that exists.
C2_SessionWhenRunning ==
  mutator_lock = "none" =>
    /\ (the_trace # NULL) <=> (\E t \in TraceIds : listeners[t] > 0)
    /\ (the_trace # NULL) <=> (LiveTraces # {})
    /\ \A t \in TraceIds : (listeners[t] > 0 \/ Live(t)) => t = the_trace

\* A session in which a callback is running: the world runs, the slot is set
\* and its Trace is registered.
C2_Witness ==
  /\ mutator_lock = "none"
  /\ the_trace # NULL
  /\ listeners[the_trace] = 1
  /\ \E m \in Mutators : mpc[m] = "log_cas" /\ mthis[m] = the_trace

\* C3 as stated: for every buffer_size given to Start, the cursor of a Trace
\* stays within [32, buffer_size].
C3_CursorInBuffer ==
  \A t \in LiveTraces :
    /\ kTraceHeaderLength <= traces[t].cur_offset
    /\ traces[t].cur_offset <= traces[t].buffer_size

\* C4: the cursor is 32 plus a whole number of records, and the k-th
\* reservation of a session starts k - 1 records after the header, where a
\* record is 14 bytes if the session's clock is dual and 10 otherwise,
\* whatever SetDefaultClockSource stored since the session began.
C4_RecordAligned ==
  \A t \in LiveTraces :
    LET rs == FormatRecordSize(traces[t].clock_source)
    IN /\ (traces[t].cur_offset - 32) % rs = 0
       /\ traces[t].cur_offset = 32 + rs * Len(reserved[t])
       /\ \A k \in 1..Len(reserved[t]) : reserved[t][k].offset = 32 + rs * (k - 1)

\* A session that has reserved records while default_clock_source_ names a
\* clock with the other record size.
C4_Witness ==
  \E t \in LiveTraces :
    /\ Len(reserved[t]) >= 2
    /\ FormatRecordSize(default_clock_source) # FormatRecordSize(traces[t].clock_source)
    /\ \E m \in Mutators : mpc[m] = "log_cas" /\ mthis[m] = t

\* The bytes [offset, offset + record size) of a reservation of session t.
RangeOf(t, r) ==
  r.offset..(r.offset + FormatRecordSize(traces[t].clock_source) - 1)

C5_Ranges ==
  \A t \in LiveTraces :
    LET rs == FormatRecordSize(traces[t].clock_source)
        n == Len(reserved[t])
    IN /\ \A i, j \in 1..n : i # j => RangeOf(t, reserved[t][i]) \cap RangeOf(t, reserved[t][j]) = {}
       /\ \A i \in 1..n : /\ reserved[t][i].offset >= 32
                          /\ reserved[t][i].offset + rs <= traces[t].buffer_size
       /\ traces[t].buffer_size = 32 + TotalCalls * rs =>
            /\ ~traces[t].overflow
            /\ dropped[t] = 0
            /\ n = TotalCalls => traces[t].cur_offset = 32 + TotalCalls * rs

\* A step changes a byte of a session's buffer only if it is a write step of a
\* mutator whose own reservation in that session covers the byte.
C5_OwnWrites ==
  \A t \in TraceIds :
    (Live(t) /\ traces'[t].state = "live" /\ traces'[t].buf # traces[t].buf) =>
      \A i \in DOMAIN traces[t].buf :
        traces'[t].buf[i] # traces[t].buf[i] =>
          \E m \in Mutators :
            /\ mpc[m] \in {"log_write", "log_cpu", "log_cpu_put", "log_wall"}
            /\ mpc'[m] # mpc[m]
            /\ mthis[m] = t
            /\ \E k \in 1..Len(reserved[t]) :
                 /\ reserved[t][k].thread = m
                 /\ i \in RangeOf(t, reserved[t][k])
                 /\ \A j \in (k + 1)..Len(reserved[t]) : reserved[t][j].thread # m

\* C5: the byte ranges of distinct successful reservations are disjoint and
\* lie inside [32, buffer_size); a byte of the buffer is written only by the
\* thread whose latest reservation covers it; and when the buffer holds
\* exactly as many records as log calls are made, none is dropped, overflow
\* stays false and the cursor ends at 32 + calls * record size.
C5_ExclusiveRanges == [][C5_Ranges' /\ C5_OwnWrites]_vars

\* Every log call of both threads has reserved its record in a buffer of
\* exactly that many records.
C5_Witness ==
  \E t \in LiveTraces :
    /\ Len(reserved[t]) = NumMutators * MaxLogCalls
    /\ traces[t].buffer_size = traces[t].cur_offset
    /\ \A m \in Mutators : \E k \in 1..Len(reserved[t]) : reserved[t][k].thread = m
    /\ ~traces[t].overflow

\* C6: of two reservations of one thread in a session, the earlier one is at
\* the strictly lower offset.
C6_ProgramOrder ==
  \A t \in LiveTraces :
    \A i, j \in 1..Len(reserved[t]) :
      (i < j /\ reserved[t][i].thread = reserved[t][j].thread)
        => reserved[t][i].offset < reserved[t][j].offset

\* A thread has reserved twice with another thread's reservation in between.
C6_Witness ==
  \E t \in LiveTraces :
    \E i, j, k \in 1..Len(reserved[t]) :
      /\ i < j /\ j < k
      /\ reserved[t][i].thread = reserved[t][k].thread
      /\ reserved[t][j].thread # reserved[t][i].thread

\* C7: once overflow_ is set, no further record fits after the cursor.
C7_OverflowMeansFull ==
  \A t \in LiveTraces :
    traces[t].overflow =>
      traces[t].cur_offset + FormatRecordSize(traces[t].clock_source)
        > traces[t].buffer_size

\* overflow_ was set while another thread was still writing the record it
\* had reserved.
C7_Witness ==
  \E t \in LiveTraces :
    /\ traces[t].overflow
    /\ Len(reserved[t]) >= 1
    /\ \E m \in Mutators : mpc[m] = "log_write" /\ mthis[m] = t

\* A log call whose record does not fit takes its step.
Drops(m) ==
  /\ mpc[m] = "log_cas"
  /\ mpc'[m] # mpc[m]
  /\ old_offset[m] + FormatRecordSize(traces[mthis[m]].clock_source)
       > traces[mthis[m]].buffer_size

\* C8: a log call whose record would end past buffer_size sets overflow_ and
\* returns, changing nothing else of the Trace and reserving nothing; while
\* the session lasts, overflow_ once set stays set and the cursor never
\* changes again.
C8_StickyOverflow ==
  [][/\ \A m \in Mutators :
          Drops(m) =>
            /\ traces' = [traces EXCEPT ![mthis[m]].overflow = TRUE]
            /\ reserved' = reserved
            /\ mpc'[m] = "idle"
     /\ \A t \in TraceIds :
          (Live(t) /\ traces'[t].state = "live" /\ traces[t].overflow) =>
            /\ traces'[t].overflow
            /\ traces'[t].cur_offset = traces[t].cur_offset]_vars

\* A second log call was dropped after the one that set overflow_.
C8_Witness ==
  \E t \in LiveTraces :
    /\ traces[t].overflow
    /\ dropped[t] >= 2
    /\ Len(reserved[t]) >= 1

\* C9: the num-method-calls line is the number of log calls of the session
\* that reserved a record, and the data-file-overflow line is true exactly
\* when a log call of the session was dropped.
C9_NumMethodCalls ==
  \A t \in TraceIds :
    emitted[t].sink # "none" =>
      /\ emitted[t].num_method_calls = Len(reserved[t])
      /\ emitted[t].overflow = (dropped[t] > 0)

\* A session finalized after one recorded and one dropped log call.
C9_Witness ==
  \E t \in TraceIds :
    /\ emitted[t].sink # "none"
    /\ emitted[t].num_method_calls = 1
    /\ emitted[t].overflow
    /\ dropped[t] = 1

SessionUnchanged ==
  /\ the_trace' = the_trace
  /\ traces' = traces
  /\ listeners' = listeners

\* C10: a Start that finds a session, at its first or at its second check,
\* logs the error and goes on to return; from there to its return it
\* changes neither the_trace_ nor the Trace nor the listeners, leaves no
\* exception pending, and has resumed the world when it returns.
C10_StartIgnored ==
  [][\A c \in Controllers :
       /\ (cpc[c] \in {"start_check", "start_create"} /\ cpc'[c] # cpc[c]
             /\ the_trace # NULL) =>
            /\ error_log'[c] = "already_in_progress"
            /\ cpc'[c] = (IF cpc[c] = "start_check" THEN "idle" ELSE "start_unlock")
            /\ SessionUnchanged
            /\ pending_exception'[c] = "none"
       /\ (cpc[c] \in {"start_unlock", "start_resume"} /\ cpc'[c] # cpc[c]
             /\ error_log[c] = "already_in_progress") =>
            /\ SessionUnchanged
            /\ pending_exception'[c] = "none"
       /\ (cpc'[c] = "idle" /\ error_log'[c] = "already_in_progress") =>
            mutator_lock' # c]_vars

\* A Start returned at its first check while the session it found goes on.
C10_Witness ==
  \E c \in Controllers :
    /\ cpc[c] = "idle"
    /\ error_log[c] = "already_in_progress"
    /\ the_trace # NULL
    /\ listeners[the_trace] = 1
    /\ mutator_lock = "none"
    /\ pending_exception[c] = "none"

\* A Start whose OS::OpenFile failed and that has not returned yet.
OpenFailed(c) == cpc[c] # "idle" /\ error_log[c] = "unable_to_open"

\* C11: a Start that is not direct to DDMS and fails to open its trace file
\* changes, from the failed open to its return, neither the_trace_ nor any
\* Trace object nor the listeners nor the allocation stats nor trace_lock;
\* when it returns the RuntimeException is pending and the world it
\* suspended runs again, so that a later Start finds the locks free.
C11_OpenFailure ==
  [][\A c \in Controllers :
       /\ (cpc[c] = "start_open" /\ error_log'[c] = "unable_to_open") =>
            /\ ~cargs[c].direct_to_ddms
            /\ SessionUnchanged
            /\ stats_enabled' = stats_enabled
       /\ (OpenFailed(c) /\ cpc'[c] # cpc[c]) =>
            /\ SessionUnchanged
            /\ stats_enabled' = stats_enabled
            /\ trace_lock' = trace_lock
            /\ trace_lock # c
       /\ (OpenFailed(c) /\ cpc'[c] = "idle") =>
            /\ pending_exception'[c] = "unable_to_open"
            /\ mutator_lock' # c
            /\ mutator_lock # c]_vars

\* A Start returned with the exception pending: the slot is empty, no Trace
\* exists, nothing is registered, the stats are off and the world runs.
C11_Witness ==
  \E c \in Controllers :
    /\ cpc[c] = "idle"
    /\ pending_exception[c] = "unable_to_open"
    /\ error_log[c] = "unable_to_open"
    /\ the_trace = NULL
    /\ LiveTraces = {}
    /\ \A t \in TraceIds : listeners[t] = 0
    /\ ~stats_enabled
    /\ mutator_lock = "none"
    /\ trace_lock = "none"

\* A session begun while the exception of a failed Start is pending.
C11_LaterStart ==
  \E c, d \in Controllers :
    /\ cpc[c] = "idle"
    /\ pending_exception[c] = "unable_to_open"
    /\ cpc[d] = "idle"
    /\ the_trace # NULL
    /\ listeners[the_trace] = 1
    /\ mutator_lock = "none"

\* C12 as stated: no controller has a RuntimeException pending while the
\* world is still suspended by its own Start or Stop call.
C12_RaisedAfterResume ==
  \A c \in Controllers : pending_exception[c] # "none" => mutator_lock # c

\* The step is taken by a controller that holds the world suspended, and no
\* mutator is inside a callback.
WorldStoppedStep ==
  /\ mutator_lock # "none"
  /\ mutator_lock' = mutator_lock
  /\ cpc'[mutator_lock] # cpc[mutator_lock]
  /\ \A m \in Mutators : mpc[m] = "idle" /\ mpc'[m] = "idle"

\* C13: a step that changes the listeners or runs the finalizer is a step
\* of the controller holding the world suspended, with every mutator outside
\* the callbacks before and after; no callback step is taken while the
\* world is suspended; Stop finalizes a Trace that is still registered,
\* unregisters it after it was finalized and destroys it after both; and a
\* mutator inside a callback always runs on a Trace that exists.
C13_WorldStopped ==
  [][/\ listeners' # listeners => WorldStoppedStep
     /\ \A t \in TraceIds :
          /\ (emitted[t].sink = "none" /\ emitted'[t].sink # "none") =>
               /\ WorldStoppedStep
               /\ Live(t) /\ listeners[t] > 0
               /\ traces'[t] = traces[t] /\ listeners'[t] = listeners[t]
          /\ (listeners[t] > 0 /\ listeners'[t] = 0) =>
               /\ emitted[t].sink # "none"
               /\ Live(t) /\ traces'[t] = traces[t]
          /\ (Live(t) /\ traces'[t].state = "none") =>
               /\ WorldStoppedStep
               /\ emitted[t].sink # "none"
               /\ listeners[t] = 0
     /\ mpc' # mpc => (mutator_lock = "none" /\ mutator_lock' = "none")
     /\ \A m \in Mutators : mpc'[m] # "idle" => traces'[mthis'[m]].state = "live"]_vars

\* Stop has finalized and unregistered a Trace and is about to destroy it,
\* while a mutator that logged into it has callbacks left to deliver.
C13_Witness ==
  \E c \in Controllers :
    /\ cpc[c] = "stop_delete"
    /\ mutator_lock = c
    /\ Live(clocal[c])
    /\ listeners[clocal[c]] = 0
    /\ emitted[clocal[c]].sink # "none"
    /\ Len(reserved[clocal[c]]) >= 1
    /\ \E m \in Mutators : ncalls[m] >= 1 /\ ncalls[m] < workload.calls[m]

\* The uint16_t stored little-endian at offset off of the bytes b.
ParseU16(b, off) == b[off] + 256 * b[off + 1]

\* C14: in what the finalizer emits, final_offset is the cursor, 32 plus
\* one record per reservation; no mutator is between its compare-and-swap and
\* the end of its writes; every record slot below final_offset carries the
\* thread id of the thread that reserved it and one of the logged methods
\* with a valid action; and the visited methods are exactly the methods
\* logged (none from an unwritten slot).
C14_FinalizedComplete ==
  \A t \in TraceIds :
    emitted[t].sink # "none" =>
      LET out == emitted[t]
          n == Len(reserved[t])
      IN /\ \A m \in Mutators : mpc[m] = "idle"
         /\ Live(t) =>
              /\ out.final_offset = traces[t].cur_offset
              /\ out.final_offset = 32 + n * FormatRecordSize(traces[t].clock_source)
              /\ \A i \in DOMAIN out.payload : out.payload[i] = traces[t].buf[i]
         /\ \A k \in 1..n :
              LET off == reserved[t][k].offset
                  tmid == ReadTmid(out.payload, off)
              IN /\ off + 6 <= out.final_offset
                 /\ \A i \in off..(off + 5) : i \in DOMAIN out.payload
                 /\ ParseU16(out.payload, off) = reserved[t][k].thread + 4
                 /\ tmid - (tmid % 4) \in workload.methods
                 /\ tmid % 4 \in {0, 1, 2}
         /\ out.visited_methods \subseteq workload.methods
         /\ (n = 0) = (out.visited_methods = {})

\* The finalizer ran on a full buffer into which both threads logged.
C14_Witness ==
  \E t \in TraceIds :
    /\ emitted[t].sink # "none"
    /\ Len(reserved[t]) = NumMutators * MaxLogCalls
    /\ \A m \in Mutators : \E k \in 1..Len(reserved[t]) : reserved[t][k].thread = m
    /\ emitted[t].final_offset = traces[t].buffer_size

\* The reservations of session t whose record is not fully written yet: the
\* thread that reserved it is between its compare-and-swap and its return.
Unfinished(t) ==
  {k \in 1..Len(reserved[t]) :
     \E m \in Mutators :
       /\ mpc[m] \in {"log_write", "log_cpu", "log_cpu_put", "log_wall"}
       /\ mthis[m] = t
       /\ old_offset[m] = reserved[t][k].offset}

EndOffset(t, k) == reserved[t][k].offset + FormatRecordSize(traces[t].clock_source)

\* C15 as stated: in every reachable state the cursor is below the end
\* offset of every record that is not fully written yet.
C15_Original ==
  \A t \in LiveTraces :
    \A k \in Unfinished(t) : traces[t].cur_offset < EndOffset(t, k)

\* C15 as amended: whenever a Start or Stop holds the world suspended, every
\* record below the cursor is fully written; and in every state, a record
\* below the cursor whose writer has returned carries the thread id of the
\* thread that reserved it and one of the logged methods.
C15_PublishedWhenStopped ==
  \A t \in LiveTraces :
    /\ mutator_lock # "none" => Unfinished(t) = {}
    /\ \A k \in (1..Len(reserved[t])) \ Unfinished(t) :
         LET off == reserved[t][k].offset
             tmid == ReadTmid(traces[t].buf, off)
         IN /\ EndOffset(t, k) <= traces[t].cur_offset
            /\ ParseU16(traces[t].buf, off) = reserved[t][k].thread + 4
            /\ tmid - (tmid % 4) \in workload.methods

\* Stop has suspended the world and is about to take a Trace into which both
\* threads logged.
C15_Witness ==
  \E c \in Controllers :
    /\ cpc[c] = "stop_take"
    /\ mutator_lock = c
    /\ the_trace # NULL
    /\ Len(reserved[the_trace]) >= 2
    /\ \A m \in Mutators :
         \E k \in 1..Len(reserved[the_trace]) : reserved[the_trace][k].thread = m

\* The uint32_t stored little-endian at offset off of the bytes b, as limbs.
ParseU32(b, off) == <<ParseU16(b, off), ParseU16(b, off + 2)>>

\* The reservations of thread m in session t.
ReservationsOf(t, m) == {k \in 1..Len(reserved[t]) : reserved[t][k].thread = m}

\* Thread m takes the step that stores the dt_cpu field of its record.
StoresCpu(m) ==
  /\ mpc[m] \in {"log_cpu", "log_cpu_put"}
  /\ mpc'[m] \notin {"log_cpu", "log_cpu_put"}

\* C16 as stated: with the thread_cpu or dual clock, the first recorded event
\* of a thread in a session stores dt_cpu = 0 and leaves the thread's CPU
\* time in the map as its base; every later recorded event of the thread
\* finds that base and stores (a CPU reading - base) mod 2^32; a base enters
\* the map only with its thread's first recorded event and is never changed
\* or removed while the session lasts.
C16_CpuBase ==
  [][/\ \A m \in Mutators :
          StoresCpu(m) =>
            LET t == mthis[m]
                map == traces[t].thread_clock_base_map
                dt_cpu == ParseU32(traces'[t].buf, old_offset[m] + 6)
            IN IF Cardinality(ReservationsOf(t, m)) = 1
               THEN /\ dt_cpu = <<0, 0>>
                    /\ m \in DOMAIN traces'[t].thread_clock_base_map
                    /\ traces'[t].thread_clock_base_map[m] \in workload.cpu_times
               ELSE /\ m \in DOMAIN map
                    /\ \E cpu \in workload.cpu_times : dt_cpu = Low32(Sub64(cpu, map[m]))
     /\ \A t \in TraceIds :
          (Live(t) /\ traces'[t].state = "live") =>
            LET map == traces[t].thread_clock_base_map
                map2 == traces'[t].thread_clock_base_map
            IN /\ \A m \in DOMAIN map : m \in DOMAIN map2 /\ map2[m] = map[m]
               /\ \A m \in (DOMAIN map2) \ (DOMAIN map) :
                    /\ StoresCpu(m) /\ mthis[m] = t
                    /\ Cardinality(ReservationsOf(t, m)) = 1]_vars

\* One thread alone: its CPU clock read 1000 and then 1175, its first record
\* holds dt_cpu 0 and its second 175.
C16_SingleThread ==
  \E t \in LiveTraces :
    /\ UseThreadCpuClock(traces[t].clock_source)
    /\ Len(reserved[t]) = 2
    /\ \A m \in Mutators : mpc[m] = "idle"
    /\ traces[t].thread_clock_base_map = (1 :> <<1000, 0, 0, 0>>)
    /\ ParseU32(traces[t].buf, reserved[t][1].offset + 6) = <<0, 0>>
    /\ ParseU32(traces[t].buf, reserved[t][2].offset + 6) = <<175, 0>>

\* The count_allocs bit (bit 0) of a flags value.
CountAllocsBit(flags) == flags % 2 = 1

\* C17 as stated: the Start that constructs a Trace enables the allocation
\* stats if the count_allocs bit of its flags is set and leaves them as they
\* are otherwise; the finalizer emits the allocation lines and disables the
\* stats under that same condition.
C17_StatsIffCountAllocs ==
  [][/\ \A c \in Controllers :
          (cpc[c] = "start_stats" /\ cpc'[c] # cpc[c]) =>
            stats_enabled' = (IF CountAllocsBit(cargs[c].flags) THEN TRUE ELSE stats_enabled)
     /\ \A t \in TraceIds :
          (emitted[t].sink = "none" /\ emitted'[t].sink # "none") =>
            /\ emitted'[t].alloc_lines = CountAllocsBit(traces[t].flags)
            /\ stats_enabled' = (IF CountAllocsBit(traces[t].flags) THEN FALSE ELSE stats_enabled)]_vars

\* What the defect leaves behind: a session started with flags = 2 has ended
\* and the allocation stats are still enabled.
C17_StatsLeftOn ==
  /\ stats_enabled
  /\ the_trace = NULL
  /\ LiveTraces = {}
  /\ \A c \in Controllers : cpc[c] = "idle"

\* The header the format prescribes for a clock source and a start time
\* (a uint64_t as four 16-bit limbs), as bytes 0..31.
FormatHeader(clock_source, start_time) ==
  LET version == IF clock_source = "dual" THEN 3 ELSE 2
  IN [i \in 0..31 |->
       CASE i = 0 -> 83 [] i = 1 -> 76 [] i = 2 -> 79 [] i = 3 -> 87
         [] i = 4 -> version [] i = 5 -> 0
         [] i = 6 -> 32 [] i = 7 -> 0
         [] i \in 8..15 ->
              LET limb == start_time[((i - 8) \div 2) + 1]
              IN IF i % 2 = 0 THEN limb % 256 ELSE limb \div 256
         [] i = 16 -> (IF version >= 3 THEN 14 ELSE 0)
         [] OTHER -> 0]

OnlyBytes(t, lo, hi) ==
  \A i \in DOMAIN traces[t].buf :
    i \notin lo..hi => traces'[t].buf[i] = traces[t].buf[i]

\* d is (wall - start) mod 2^32: start + d and wall agree in their low 32
\* bits (d a uint32_t, start and wall uint64_t, all as 16-bit limbs).
IsDelta32(d, start, wall) ==
  LET carry == (start[1] + d[1]) \div 65536
  IN /\ (start[1] + d[1]) % 65536 = wall[1]
     /\ (start[2] + d[2] + carry) % 65536 = wall[2]

\* The action number the format gives an instrumentation event.
FormatAction(event) ==
  CASE event = "kMethodEntered" -> 0
    [] event = "kMethodExited" -> 1
    [] event = "kMethodUnwind" -> 2

\* The record at offset off of buffer b, parsed as the format prescribes for
\* a clock source.
ParseRecord(b, off, clock_source) ==
  LET tmid == ParseU32(b, off + 2)
      with_cpu == clock_source \in {"thread_cpu", "dual"}
      with_wall == clock_source \in {"wall", "dual"}
  IN [tid |-> ParseU16(b, off),
      method |-> <<tmid[1] - (tmid[1] % 4), tmid[2]>>,
      action |-> tmid[1] % 4,
      dt_cpu |-> IF with_cpu THEN ParseU32(b, off + 6) ELSE <<>>,
      dt_wall |-> IF with_wall THEN ParseU32(b, off + (IF with_cpu THEN 10 ELSE 6))
                  ELSE <<>>]

\* C19: a log call stores its record field by field into the bytes it
\* reserved and nowhere else: first the thread id (bytes 0-1) and the method
\* and action (bytes 2-5), which parse back to the tid of the calling thread,
\* the method logged and the action of the event; then dt_cpu (bytes 6-9)
\* exactly if the clock is thread_cpu or dual; then dt_wall (the last four
\* bytes of the record) exactly if the clock is wall or dual, which parses
\* back to (a wall reading - start time) mod 2^32; and then it returns.
C19_RecordLayout ==
  [][\A m \in Mutators :
       LET t == mthis[m]
           cs == traces[t].clock_source
           off == old_offset[m]
           rec == ParseRecord(traces'[t].buf, off, cs)
       IN /\ (mpc[m] = "log_write" /\ mpc'[m] # "log_write") =>
               /\ OnlyBytes(t, off, off + 5)
               /\ rec.tid = m + 4
               /\ rec.method[1] + 65536 * rec.method[2] = mmethod[m]
               /\ rec.action = FormatAction(mevent[m])
               /\ mpc'[m] = (IF cs \in {"thread_cpu", "dual"} THEN "log_cpu" ELSE "log_wall")
          /\ StoresCpu(m) =>
               /\ cs \in {"thread_cpu", "dual"}
               /\ OnlyBytes(t, off + 6, off + 9)
               /\ mpc'[m] = (IF cs = "dual" THEN "log_wall" ELSE "idle")
          /\ (mpc[m] = "log_wall" /\ mpc'[m] # "log_wall") =>
               /\ cs \in {"wall", "dual"}
               /\ OnlyBytes(t, off + FormatRecordSize(cs) - 4, off + FormatRecordSize(cs) - 1)
               /\ \E wall \in workload.wall_times :
                    IsDelta32(rec.dt_wall, traces[t].start_time, wall)
               /\ mpc'[m] = "idle"]_vars

\* Thread 1 (tid 5) logged method 0x10002000 entered 42 microseconds after
\* the start of a wall-clock session: the record at offset 32 is
\* 05 00 00 20 00 10 2A 00 00 00 and the cursor is 42.
C19_Witness ==
  \E t \in LiveTraces :
    /\ traces[t].clock_source = "wall"
    /\ traces[t].cur_offset = 42
    /\ \A m \in Mutators : mpc[m] = "idle"
    /\ [i \in 0..9 |-> traces[t].buf[32 + i]] =
         [i \in 0..9 |-> <<5, 0, 0, 32, 0, 16, 42, 0, 0, 0>>[i + 1]]
    /\ ParseRecord(traces[t].buf, 32, "wall") =
         [tid |-> 5, method |-> <<8192, 4096>>, action |-> 0,
          dt_cpu |-> <<>>, dt_wall |-> <<42, 0>>]

\* A wall delta of 2^32 + 100 microseconds was stored as 100.
C19_Wrapped ==
  \E t \in LiveTraces :
    /\ traces[t].clock_source = "wall"
    /\ traces[t].start_time = <<1000, 0, 0, 0>>
    /\ Len(reserved[t]) = 1
    /\ \A m \in Mutators : mpc[m] = "idle"
    /\ ParseRecord(traces[t].buf, 32, "wall").dt_wall = <<100, 0>>

\* C20: for the method (low two bits zero) and the event of every log call,
\* the event maps to action 0 if method-entered, 1 if method-exited and 2
\* if method-unwind, and the word EncodeTraceMethodAndAction builds from
\* method and action decodes to that method and that action; the same holds
\* for the word read back from the record the call has stored.
C20_EncodeDecode ==
  \A m \in Mutators :
    mpc[m] \in {"log_write", "log_cpu", "log_cpu_put", "log_wall"} =>
      LET method == mmethod[m]
          action == ActionOf(mevent[m])
          tmid == EncodeTraceMethodAndAction(method, action)
          stored == ReadTmid(traces[mthis[m]].buf, old_offset[m])
      IN method % 4 = 0 =>
           /\ action = FormatAction(mevent[m])
           /\ action \in {0, 1, 2}
           /\ DecodeTraceMethodId(tmid) = method
           /\ DecodeTraceAction(tmid) = action
           /\ mpc[m] # "log_write" =>
                /\ DecodeTraceMethodId(stored) = method
                /\ DecodeTraceAction(stored) = action

\* A log call has stored the highest method address with the action of a
\* method-unwind event.
C20_Witness ==
  \E m \in Mutators :
    /\ mpc[m] = "log_wall"
    /\ mmethod[m] = 2147483644
    /\ mevent[m] = "kMethodUnwind"
    /\ ReadTmid(traces[mthis[m]].buf, old_offset[m]) = 2147483646

\* C21 as stated: while one thread has an insertion into a session's
\* thread_clock_base_map_ in progress, no other thread is at a lookup or an
\* insertion on that same map.
C21_NoMapRace ==
  \A m, o \in Mutators :
    (m # o /\ mpc[m] = "log_cpu_put" /\ mthis[o] = mthis[m]) =>
      mpc[o] \notin {"log_cpu", "log_cpu_put"}

\* Two threads have each missed in the map of one session and both have
\* their Put in progress.
C21_TwoPuts ==
  \E t \in LiveTraces :
    \A m \in Mutators : mpc[m] = "log_cpu_put" /\ mthis[m] = t

\* Controller c takes a step of its call.
Steps(c) == cpc'[c] # cpc[c]

\* C22: the world is suspended only by the step of a Start or Stop that
\* has not suspended it yet, and resumed only by a step of the call that
\* holds it; each ResumeAll of a call finds the world held by that call;
\* a call that holds the world has resumed it when it returns, on
\* every path, so that the world runs whenever every call has returned; and
\* a Stop that finds no session logs the error and changes neither
\* the_trace_ nor a Trace nor the listeners nor the stats nor what was
\* emitted, and leaves no exception pending.
C22_Balanced ==
  [][/\ \A c \in Controllers :
          /\ (mutator_lock # c /\ mutator_lock' = c) =>
               /\ mutator_lock = "none"
               /\ Steps(c)
               /\ cpc[c] \in {"start_suspend", "stop_suspend"}
          /\ (mutator_lock = c /\ mutator_lock' # c) =>
               /\ mutator_lock' = "none"
               /\ Steps(c)
          /\ (Steps(c) /\ cpc[c] \in {"start_open_failed", "start_resume", "stop_resume"}) =>
               (mutator_lock = c /\ mutator_lock' = "none")
          /\ (Steps(c) /\ cpc'[c] = "idle") => mutator_lock' # c
          /\ (Steps(c) /\ cpc[c] = "idle") => mutator_lock # c
          /\ (Steps(c) /\ cpc[c] = "stop_take" /\ the_trace = NULL) =>
               /\ error_log'[c] = "no_trace_running"
               /\ mutator_lock = c /\ mutator_lock' = c
               /\ SessionUnchanged
               /\ stats_enabled' = stats_enabled
               /\ emitted' = emitted
               /\ pending_exception'[c] = "none"
          /\ (Steps(c) /\ cpc[c] = "stop_resume" /\ error_log[c] = "no_trace_running") =>
               /\ mutator_lock = c /\ mutator_lock' = "none"
               /\ cpc'[c] = "idle"
               /\ SessionUnchanged
               /\ stats_enabled' = stats_enabled
               /\ emitted' = emitted
               /\ pending_exception'[c] = "none"
     /\ (\A c \in Controllers : cpc'[c] = "idle") => mutator_lock' = "none"]_vars

\* A Stop whose write to the trace file failed has returned with the
\* exception pending, and the world runs.
C22_Witness ==
  \E c \in Controllers :
    /\ \A d \in Controllers : cpc[d] = "idle"
    /\ pending_exception[c] = "write_failed"
    /\ error_log[c] = "write_failed"
    /\ mutator_lock = "none"
    /\ the_trace = NULL
    /\ LiveTraces = {}

\* A Stop that found no session has returned, and the world runs.
C22_StopWithoutSession ==
  \E c \in Controllers :
    /\ cpc[c] = "idle"
    /\ error_log[c] = "no_trace_running"
    /\ pending_exception[c] = "none"
    /\ mutator_lock = "none"

\* Thread m is inside a log call.
InLog(m) == mpc[m] # "idle"

\* Thread m has reserved its slot and is filling it.
Filling(m) == mpc[m] \in {"log_write", "log_cpu", "log_cpu_put", "log_wall"}

\* The reservations of thread m in session t at offset o.
SlotsAt(t, m, o) ==
  {i \in 1..Len(reserved[t]) : reserved[t][i] = [thread |-> m, offset |-> o]}

\* A compare-and-swap of thread m fails only if the cursor no longer holds
\* the value m read, and then another thread has reserved the slot at that
\* value since; the loop goes back to the read.
CasFailure(m) ==
  (mpc[m] = "log_cas" /\ mpc'[m] = "log_read") =>
    /\ traces[mthis[m]].cur_offset # old_offset[m]
    /\ \E o \in Mutators \ {m} : SlotsAt(mthis[m], o, old_offset[m]) # {}
    /\ UNCHANGED <<traces, reserved, dropped>>

\* A log call returns either from its overflow test, having set overflow_
\* and dropped the event without a reservation, or after it has filled the
\* one slot it reserved; once it has its slot it does not reserve again.
LogReturn(m) ==
  /\ (InLog(m) /\ mpc'[m] = "idle") =>
       \/ /\ mpc[m] = "log_cas"
          /\ traces'[mthis[m]].overflow
          /\ dropped'[mthis[m]] = dropped[mthis[m]] + 1
          /\ reserved' = reserved
          /\ SlotsAt(mthis[m], m, old_offset[m]) = {}
       \/ /\ Filling(m)
          /\ Cardinality(SlotsAt(mthis[m], m, old_offset[m])) = 1
          /\ reserved' = reserved
          /\ dropped' = dropped
  /\ (Filling(m) /\ mpc'[m] # mpc[m]) =>
       /\ mpc'[m] = "idle" \/ Filling(m)'
       /\ reserved' = reserved
       /\ traces'[mthis[m]].cur_offset = traces[mthis[m]].cur_offset
  /\ (mpc[m] = "log_cas" /\ mpc'[m] = "log_write") =>
       /\ traces[mthis[m]].cur_offset = old_offset[m]
       /\ traces'[mthis[m]].cur_offset = new_offset[m]
       /\ reserved'[mthis[m]] =
            Append(reserved[mthis[m]], [thread |-> m, offset |-> old_offset[m]])

\* A thread inside a log call always has a next step of that call: no
\* position of the log path waits for a lock or for another thread.
NeverBlocked == \A m \in Mutators : InLog(m) => ENABLED LogStep(m)

\* C23: a compare-and-swap of the cursor fails only if another thread has
\* reserved the slot at the value read; a log call in progress can always
\* take its next step; it returns having reserved exactly one slot or having
\* set overflow and dropped the event; and under fair scheduling of the
\* threads every log call that has begun returns: at any time each thread
\* is, then or later, outside LogMethodTraceEvent.
C23_LockFree ==
  /\ [][\A m \in Mutators : CasFailure(m) /\ LogReturn(m)]_vars
  /\ [] NeverBlocked
  /\ \A m \in Mutators : []<>(~InLog(m))

\* A thread whose compare-and-swap failed is back at the read of the cursor,
\* and the slot it tried for belongs to the other thread.
C23_Witness ==
  \E m \in Mutators :
    /\ mpc[m] = "log_read"
    /\ old_offset[m] >= kTraceHeaderLength
    /\ \E o \in Mutators \ {m} : SlotsAt(mthis[m], o, old_offset[m]) # {}

\* A log call has returned from its overflow test: the session has dropped
\* an event, its overflow flag is set, and the thread is outside the log path.
C23_Dropped ==
  \E t \in LiveTraces :
    /\ dropped[t] > 0
    /\ traces[t].overflow
    /\ Len(reserved[t]) > 0
    /\ \A m \in Mutators : ~InLog(m)

====
